---- MODULE Spec2Model ----
(***************************************************************************)
(* Model of flask_api/cache.py: LocationCache (a cachetools.TTLCache       *)
(* addressed by rounded coordinates plus keyword parameters), the @cached  *)
(* read-through decorator, the two module-level cache instances and the    *)
(* /cache/clear and /cache/stats handlers of flask_api/app.py.             *)
(*                                                                         *)
(* Time is the TTLCache timer (time.monotonic) in whole seconds scaled so  *)
(* that the time-to-live is Ttl ticks.  Coordinates are integers counting  *)
(* steps of 0.0002 degree, so that round(x, 3) never meets an exact half.  *)
(***************************************************************************)
EXTENDS Integers, Sequences, FiniteSets, TLC

\* ------------------------------------------------------------------ bounds
\* time-to-live of a cache, in clock ticks (config.CACHE_TTL_SECONDS scaled)
Ttl == 2
\* capacity of a cache (config.CACHE_MAX_SIZE scaled)
MaxSize == 2
\* the clock stops advancing at MaxTime
MaxTime == 3
\* coordinates of the key specification range over -MaxCoord..MaxCoord
MaxCoord == 3
\* the forecaster is given at most MaxObs files, modified at hours 0..MaxHour
MaxObs == 3
MaxHour == 1
\* the largest predicted concentration converted, in units of 1e14
\* molecules/cm^2 (2 ppb each)
MaxConc == 1100

\* ------------------------------------------------------------------ values
\* Python's None
None == "None"
\* an empty but non-null payload ({} or []) and a non-empty payload
Payloads == {"empty", "data"}
\* what a wrapped fetch function can return
Results == Payloads \cup {None}

\* ------------------------------------------------------- LocationCache keys
\* round(x, 3) on a float x = c * 0.0002: nearest thousandth, sign kept
\* (round(-0.0004, 3) is -0.0).  mil counts thousandths.
Round3(c) ==
    [neg |-> c < 0, mil |-> ((IF c < 0 THEN -c ELSE c) + 2) \div 5]

\* the numeric value of a rounded coordinate, in thousandths (-0.0 = 0.0)
FloatValue(r) == IF r.neg THEN -r.mil ELSE r.mil

\* json.dumps of a float: repr(), sign, integer part and three decimals
FloatRepr(r) ==
    <<IF r.neg THEN "-" ELSE "", r.mil \div 1000, r.mil % 1000>>

\* lexicographic rank of the keyword names in use ('lat' < 'lon' < ...)
NameRank == [pollutant |-> 1, radius |-> 2]

\* the items of a dict of keyword parameters, sorted by name (sort_keys=True)
RECURSIVE SortItems(_)
SortItems(items) ==
    IF items = {} THEN <<>>
    ELSE LET first == CHOOSE p \in items :
                        \A q \in items : NameRank[p[1]] <= NameRank[q[1]]
         IN  <<first>> \o SortItems(items \ {first})

\* the set of (name, value) items of **kwargs, given in call order
KwItems(kw) == {kw[i] : i \in 1..Len(kw)}

\* json.dumps(key_data, sort_keys=True): 'lat', 'lon', then the sorted
\* keyword items.  The md5 digest of that string is taken as the string
\* itself (collisions are out of scope).
MakeKey(lat, lon, kw) ==
    <<FloatRepr(Round3(lat)), FloatRepr(Round3(lon)), SortItems(KwItems(kw))>>

KeyOf(call) == MakeKey(call.lat, call.lon, call.kw)

\* ------------------------------------------------------------ TTLCache state
\* data:    Cache.__data, key -> value
\* links:   TTLCache.__links, the OrderedDict order (least recently used first)
\* ring:    the doubly linked list from root.next on (oldest expiry first)
\* expires: link.expires of each key of links
EmptyCache ==
    [data    |-> [k \in {} |-> None],
     links   |-> <<>>,
     ring    |-> <<>>,
     expires |-> [k \in {} |-> 0]]

Remove(seq, k) == SelectSeq(seq, LAMBDA x : x # k)

Restrict(f, S) == [k \in S |-> f[k]]

\* Cache.__delitem__, del links[key], link.unlink()
DelEntry(st, k) ==
    [data    |-> Restrict(st.data, DOMAIN st.data \ {k}),
     links   |-> Remove(st.links, k),
     ring    |-> Remove(st.ring, k),
     expires |-> Restrict(st.expires, DOMAIN st.expires \ {k})]

\* TTLCache.expire(time): unlink from the head of the ring while expired
RECURSIVE Expire(_, _)
Expire(st, time) ==
    IF st.ring # <<>> /\ ~(time < st.expires[Head(st.ring)])
    THEN Expire(DelEntry(st, Head(st.ring)), time)
    ELSE st

\* (mutant) an entry still visible at the very tick it expires
ContainsLate(st, key, time) ==
    key \in DOMAIN st.expires /\ ~(st.expires[key] < time)

\* TTLCache.__contains__: reads links without reordering them
Contains(st, key, time) ==
    key \in DOMAIN st.expires /\ time < st.expires[key]

\* TTLCache.__getlink: links.move_to_end(key)
MoveToEnd(st, key) ==
    [st EXCEPT !.links = Append(Remove(st.links, key), key)]

\* (mutant) a get that purges the expired entries when it misses
TTLCacheGetPurging(st, key, time) ==
    IF Contains(st, key, time)
    THEN [st |-> MoveToEnd(st, key), ret |-> st.data[key]]
    ELSE [st |-> Expire(st, time), ret |-> None]

\* TTLCache.get = Cache.get under the frozen timer: `key in self`, then
\* self[key] (which reorders links); the default None otherwise
TTLCacheGet(st, key, time) ==
    IF Contains(st, key, time)
    THEN [st |-> MoveToEnd(st, key), ret |-> st.data[key]]
    ELSE [st |-> st, ret |-> None]

\* (mutant) popitem that removes the most recently used key
PopItemNewest(st, time) ==
    LET live == Expire(st, time)
    IN  DelEntry(live, live.links[Len(live.links)])

\* TTLCache.popitem: the first key of links (the least recently used one
\* that has not expired), removed with pop(key)
PopItem(st, time) ==
    LET live == Expire(st, time)
    IN  DelEntry(live, Head(live.links))

\* (mutant) the eviction loop off by one: room is made only once the
\* cache is over its capacity
RECURSIVE EvictWhileOver(_, _)
EvictWhileOver(st, time) ==
    IF Cardinality(DOMAIN st.data) > MaxSize
    THEN EvictWhileOver(PopItem(st, time), time)
    ELSE st

\* Cache.__setitem__, the eviction loop:
\* while self.__currsize + size > maxsize: self.popitem()
RECURSIVE EvictWhileFull(_, _)
EvictWhileFull(st, time) ==
    IF Cardinality(DOMAIN st.data) + 1 > MaxSize
    THEN EvictWhileFull(PopItem(st, time), time)
    ELSE st

\* Cache.__setitem__(key, value) with getsizeof = 1
CacheSetItem(st, key, value, time) ==
    LET room == IF key \notin DOMAIN st.data
                THEN EvictWhileFull(st, time)
                ELSE st
    IN  [room EXCEPT !.data =
            [k \in DOMAIN room.data \cup {key} |->
                IF k = key THEN value ELSE room.data[k]]]

\* (mutant) an overwrite that keeps the old link's expiry time
SetLinkKeepExpiry(st, key, time) ==
    [st EXCEPT
        !.links   = Append(Remove(st.links, key), key),
        !.ring    = Append(Remove(st.ring, key), key),
        !.expires = [k \in DOMAIN st.expires \cup {key} |->
                        IF k \in DOMAIN st.expires THEN st.expires[k]
                        ELSE time + Ttl]]

\* TTLCache.__setitem__, the link part: a new link or the old one unlinked,
\* expires = time + ttl, appended to the tail of the ring
SetLink(st, key, time) ==
    [st EXCEPT
        !.links   = Append(Remove(st.links, key), key),
        !.ring    = Append(Remove(st.ring, key), key),
        !.expires = [k \in DOMAIN st.expires \cup {key} |->
                        IF k = key THEN time + Ttl ELSE st.expires[k]]]

\* TTLCache.__setitem__: expire, Cache.__setitem__, then the link
TTLCacheSetItem(st, key, value, time) ==
    SetLink(CacheSetItem(Expire(st, time), key, value, time), key, time)

\* Cache.clear (MutableMapping.clear): popitem until KeyError
RECURSIVE PopAll(_, _)
PopAll(st, time) ==
    IF st.links = <<>> THEN st ELSE PopAll(PopItem(st, time), time)

\* _TimedCache.clear: expire, then Cache.clear
TTLCacheClear(st, time) == PopAll(Expire(st, time), time)

\* _TimedCache.__len__: expire, then len(data)
TTLCacheLen(st, time) ==
    LET live == Expire(st, time)
    IN  [st |-> live, ret |-> Cardinality(DOMAIN live.data)]

\* ------------------------------------------------------------ LocationCache
\* LocationCache.get(lat, lon, **kwargs)
LCGet(st, call, time) == TTLCacheGet(st, KeyOf(call), time)

\* LocationCache.set(lat, lon, value, **kwargs)
LCSet(st, call, value, time) == TTLCacheSetItem(st, KeyOf(call), value, time)

\* LocationCache.clear()
LCClear(st, time) == TTLCacheClear(st, time)

\* LocationCache.stats['size']
LCStats(st, time) == TTLCacheLen(st, time)

\* (mutant) a wrapper that stores whatever the wrapped function returns
CachedWrapperStoreAll(st, call, result, time) ==
    LET hit == LCGet(st, call, time)
    IN  IF hit.ret # None
        THEN [st |-> hit.st, ret |-> hit.ret, invoked |-> FALSE]
        ELSE [st      |-> LCSet(hit.st, call, result, time),
              ret     |-> result,
              invoked |-> TRUE]

\* (mutant) a wrapper that runs the wrapped function on every call and
\* stores what it returns
CachedWrapperRefetch(st, call, result, time) ==
    LET hit == LCGet(st, call, time)
    IN  [st      |-> IF result # None
                     THEN LCSet(hit.st, call, result, time)
                     ELSE hit.st,
         ret     |-> IF result # None THEN result ELSE hit.ret,
         invoked |-> TRUE]

\* @cached(cache_instance) wrapper(lat, lon, **kwargs); result is what the
\* wrapped function returns when it is invoked
CachedWrapper(st, call, result, time) ==
    LET hit == LCGet(st, call, time)
    IN  IF hit.ret # None
        THEN [st |-> hit.st, ret |-> hit.ret, invoked |-> FALSE]
        ELSE [st      |-> IF result # None
                          THEN LCSet(hit.st, call, result, time)
                          ELSE hit.st,
              ret     |-> result,
              invoked |-> TRUE]

\* ------------------------------------------------------------------- state
VARIABLES
    now,      \* the timer's reading
    caches,   \* the TTLCache of each LocationCache instance
    abs,      \* history: per cache and key, the most recent set that has
              \* not expired and was not cleared or evicted since
    fill,     \* history: per cache, the distinct keys set since it was last
              \* empty, while nothing expired and nothing was read
    fresh,    \* history: per cache, cleared and not set since
    lastOp,   \* the operation of the last step and what it returned
    keyTest,  \* two calls, their keys, and what a get with the second
              \* returns after a set with the first
    threads,  \* the request threads working on tempo_cache concurrently
    pred      \* the forecaster: the files it reads, the series it loads and
              \* what it returns

vars == <<now, caches, abs, fill, fresh, lastOp, keyTest, threads, pred>>

\* tempo_cache and forecast_cache, the module-level instances
CacheNames == {"tempo", "forecast"}

P == <<"pollutant", "no2">>
R == <<"radius", "25">>

\* the calls of the LocationCache specification: three distinct keys
SpecCalls ==
    {[lat |-> 0, lon |-> 5, kw |-> <<>>],
     [lat |-> 0, lon |-> 10, kw |-> <<>>],
     [lat |-> 0, lon |-> 5, kw |-> <<P, R>>]}

\* the locations requested from the HTTP handlers (no keyword parameters:
\* get_pollutant_data(lat, lon) and get_forecast(lat, lon))
AppCalls ==
    {[lat |-> 0, lon |-> 5, kw |-> <<>>], [lat |-> 0, lon |-> 10, kw |-> <<>>]}

Keys == {KeyOf(c) : c \in SpecCalls \cup AppCalls}

NoKey == <<>>
\* t: when the set was made; v: its value
NoSet == [t |-> -1, v |-> None]
NoFill == [ok |-> FALSE, keys |-> <<>>]
EmptyFill == [ok |-> TRUE, keys |-> <<>>]

Range(seq) == {seq[i] : i \in 1..Len(seq)}

\* ret: the value returned (get, cached) or stored (set); size: what stats
\* reported; invoked: whether the wrapped function ran (cached); evicted:
\* how many unexpired entries the step removed to make room; again: the
\* step before was the same call and its fetch returned nothing useful;
\* cleared: the caches that held a retrievable entry when cleared; nested:
\* whether the cached call made inside ran its wrapped function; over:
\* when the set that this set overwrote was made, if its entry was still
\* retrievable (-1 otherwise)
Op(op, c, key, ret, size, invoked) ==
    [op |-> op, cache |-> c, key |-> key, ret |-> ret,
     size |-> size, invoked |-> invoked, evicted |-> 0, again |-> FALSE,
     cleared |-> {}, nested |-> "none", over |-> -1]

\* the request-handling threads of the server
Threads == {"t1", "t2"}

\* pc: where the thread is inside a LocationCache operation; time: the
\* timer value the operation froze; ret: what its last operation returned
\* or raised
IdleThread ==
    [pc |-> "idle", key |-> NoKey, val |-> None, time |-> 0, ret |-> None]

NoKeyTest ==
    [stage |-> "none", a |-> [lat |-> 0, lon |-> 0, kw |-> <<>>],
     b |-> [lat |-> 0, lon |-> 0, kw |-> <<>>],
     ka |-> NoKey, kb |-> NoKey, ret |-> None]

\* Python's None where a dictionary may stand
Absent == [absent |-> TRUE]

\* the forecaster before it was given anything; error is the error of the
\* dictionary generate_forecast returns
NoPred ==
    [stage |-> "none", files |-> <<>>, series |-> Absent, result |-> Absent,
     error |-> "none"]

\* the part of the state the sequential specifications leave alone
Others == <<keyTest, threads, pred>>

Init ==
    /\ keyTest = NoKeyTest
    /\ threads = [t \in Threads |-> IdleThread]
    /\ pred = NoPred
    /\ now = 0
    /\ caches = [c \in CacheNames |-> EmptyCache]
    /\ abs = [c \in CacheNames |-> [k \in Keys |-> NoSet]]
    /\ fill = [c \in CacheNames |-> EmptyFill]
    /\ fresh = [c \in CacheNames |-> FALSE]
    /\ lastOp = Op("init", "tempo", NoKey, None, 0, FALSE)

\* how many entries that had not expired a step from st to st2 removed
Evicted(st, st2) ==
    Cardinality(DOMAIN Expire(st, now).data \ DOMAIN st2.data)

\* history of cache c after a store of value under key that turned its
\* TTLCache from st into st2
AbsStored(c, key, value, st, st2) ==
    LET evicted == DOMAIN Expire(st, now).data \ DOMAIN st2.data
    IN  [k \in Keys |->
            IF k = key THEN [t |-> now, v |-> value]
            ELSE IF k \in evicted THEN NoSet
            ELSE abs[c][k]]

FillStored(c, key) ==
    IF fill[c].ok /\ key \notin Range(fill[c].keys)
    THEN [ok |-> TRUE, keys |-> Append(fill[c].keys, key)]
    ELSE NoFill

Stored(c, key, value, st, st2) ==
    /\ abs' = [abs EXCEPT ![c] = AbsStored(c, key, value, st, st2)]
    /\ fill' = [fill EXCEPT ![c] = FillStored(c, key)]
    /\ fresh' = [fresh EXCEPT ![c] = FALSE]

\* history bookkeeping of a read of key that hits
ReadHit(c) ==
    /\ fill' = [fill EXCEPT ![c] = NoFill]
    /\ UNCHANGED <<abs, fresh>>

\* whether the last step was a call of the same cached function with the
\* same key that invoked the wrapped function and got ret
Retry(c, key, ret) ==
    /\ lastOp.op = "cached"
    /\ lastOp.cache = c
    /\ lastOp.key = key
    /\ lastOp.invoked
    /\ lastOp.ret = ret

\* cache.get(lat, lon, **kwargs)
Get(c, call) ==
    LET r == LCGet(caches[c], call, now)
    IN  /\ caches' = [caches EXCEPT ![c] = r.st]
        /\ lastOp' = Op("get", c, KeyOf(call), r.ret, 0, FALSE)
        /\ IF r.ret # None THEN ReadHit(c) ELSE UNCHANGED <<abs, fill, fresh>>
        /\ UNCHANGED now

\* cache.set(lat, lon, value, **kwargs)
Set(c, call, value) ==
    LET st2 == LCSet(caches[c], call, value, now)
    IN  /\ caches' = [caches EXCEPT ![c] = st2]
        /\ lastOp' = [Op("set", c, KeyOf(call), value, 0, FALSE)
                         EXCEPT !.evicted = Evicted(caches[c], st2),
                                !.over = abs[c][KeyOf(call)].t]
        /\ Stored(c, KeyOf(call), value, caches[c], st2)
        /\ UNCHANGED now

\* cache.clear()
Clear(c) ==
    /\ caches' = [caches EXCEPT ![c] = LCClear(caches[c], now)]
    /\ lastOp' = Op("clear", c, NoKey, None, 0, FALSE)
    /\ abs' = [abs EXCEPT ![c] = [k \in Keys |-> NoSet]]
    /\ fill' = [fill EXCEPT ![c] = EmptyFill]
    /\ fresh' = [fresh EXCEPT ![c] = TRUE]
    /\ UNCHANGED now

\* cache.stats
Stats(c) ==
    LET r == LCStats(caches[c], now)
    IN  /\ caches' = [caches EXCEPT ![c] = r.st]
        /\ lastOp' = Op("stats", c, NoKey, None, r.ret, FALSE)
        /\ UNCHANGED <<now, abs, fill, fresh>>

\* a call of a function decorated with @cached(cache c); result is what the
\* wrapped function returns if it is invoked
Cached(c, call, result) ==
    LET r == CachedWrapper(caches[c], call, result, now)
        hit == LCGet(caches[c], call, now)
    IN  /\ caches' = [caches EXCEPT ![c] = r.st]
        /\ lastOp' = [Op("cached", c, KeyOf(call), r.ret, 0, r.invoked)
                         EXCEPT !.evicted = Evicted(hit.st, r.st),
                                !.again = \E x \in {None, "empty"} :
                                             Retry(c, KeyOf(call), x)]
        /\ IF ~r.invoked THEN ReadHit(c)
           ELSE IF r.st # hit.st
                THEN Stored(c, KeyOf(call), result, hit.st, r.st)
                ELSE UNCHANGED <<abs, fill, fresh>>
        /\ UNCHANGED now

\* the timer advances by one tick
Tick ==
    /\ now < MaxTime
    /\ now' = now + 1
    /\ abs' = [c \in CacheNames |-> [k \in Keys |->
                  IF abs[c][k] # NoSet /\ now + 1 - abs[c][k].t >= Ttl
                  THEN NoSet ELSE abs[c][k]]]
    /\ fill' = [c \in CacheNames |->
                  IF \E k \in Range(fill[c].keys) : now + 1 - abs[c][k].t >= Ttl
                  THEN NoFill ELSE fill[c]]
    /\ lastOp' = Op("tick", "tempo", NoKey, None, 0, FALSE)
    /\ UNCHANGED <<caches, fresh>>

\* the caches that hold an entry a get would return
Holding == {c \in CacheNames : \E k \in Keys : Contains(caches[c], k, now)}

\* (mutant) a handler that clears tempo_cache only
CacheClearTempoOnly ==
    /\ caches' = [caches EXCEPT !["tempo"] = LCClear(caches["tempo"], now)]
    /\ lastOp' = [Op("cache_clear", "tempo", NoKey, None, 0, FALSE)
                     EXCEPT !.cleared = Holding]
    /\ abs' = [abs EXCEPT !["tempo"] = [k \in Keys |-> NoSet]]
    /\ fill' = [fill EXCEPT !["tempo"] = EmptyFill]
    /\ fresh' = [c \in CacheNames |-> TRUE]
    /\ UNCHANGED now

\* POST /cache/clear: tempo_cache.clear(), forecast_cache.clear()
CacheClear ==
    /\ caches' = [c \in CacheNames |-> LCClear(caches[c], now)]
    /\ lastOp' = [Op("cache_clear", "tempo", NoKey, None, 0, FALSE)
                     EXCEPT !.cleared = Holding]
    /\ abs' = [c \in CacheNames |-> [k \in Keys |-> NoSet]]
    /\ fill' = [c \in CacheNames |-> EmptyFill]
    /\ fresh' = [c \in CacheNames |-> TRUE]
    /\ UNCHANGED now

\* GET /cache/stats: the stats of both instances
CacheStats ==
    LET rt == LCStats(caches["tempo"], now)
        rf == LCStats(caches["forecast"], now)
    IN  /\ caches' = [c \in CacheNames |-> IF c = "tempo" THEN rt.st ELSE rf.st]
        /\ lastOp' = Op("cache_stats", "tempo", NoKey, None, rt.ret + rf.ret, FALSE)
        /\ UNCHANGED <<now, abs, fill, fresh>>

\* what get_forecast builds: a forecast with data, or the dictionary whose
\* advisory is 'Insufficient data for forecast' when no source has any
Forecast(satellite, others) ==
    IF satellite # None \/ others THEN "data" ELSE "insufficient"

\* UnifiedForecastService.get_forecast(lat, lon) under @cached(forecast_cache):
\* on a miss it calls TempoService.get_pollutant_data (itself under
\* @cached(tempo_cache)) and the ground and weather services; tempo is what
\* the satellite fetch returns if it runs, others whether ground or weather
\* has data
GetForecast(call, tempo, others) ==
    LET key == KeyOf(call)
        hit == LCGet(caches["forecast"], call, now)
        sat == CachedWrapper(caches["tempo"], call, tempo, now)
        sathit == LCGet(caches["tempo"], call, now)
        result == Forecast(sat.ret, others)
        stored == LCSet(hit.st, call, result, now)
    IN  IF hit.ret # None
        THEN /\ caches' = [caches EXCEPT !["forecast"] = hit.st]
             /\ lastOp' = Op("cached", "forecast", key, hit.ret, 0, FALSE)
             /\ ReadHit("forecast")
             /\ UNCHANGED now
        ELSE /\ caches' = [c \in CacheNames |->
                              IF c = "tempo" THEN sat.st ELSE stored]
             /\ lastOp' = [Op("cached", "forecast", key, result, 0, TRUE)
                             EXCEPT !.again = \E x \in {None, "insufficient"} :
                                                 Retry("forecast", key, x),
                                    !.nested = IF sat.invoked THEN "fetched"
                                               ELSE "hit"]
             /\ abs' = [c \in CacheNames |->
                           IF c = "forecast"
                           THEN AbsStored(c, key, result, hit.st, stored)
                           ELSE IF sat.invoked /\ sat.st # sathit.st
                           THEN AbsStored(c, key, tempo, sathit.st, sat.st)
                           ELSE abs[c]]
             /\ fill' = [c \in CacheNames |->
                           IF c = "forecast" THEN FillStored(c, key)
                           ELSE IF ~sat.invoked THEN NoFill
                           ELSE IF sat.st # sathit.st THEN FillStored(c, key)
                           ELSE fill[c]]
             /\ fresh' = [c \in CacheNames |->
                           IF c = "forecast" THEN FALSE
                           ELSE IF sat.invoked /\ sat.st # sathit.st THEN FALSE
                           ELSE fresh[c]]
             /\ UNCHANGED now

\* One LocationCache (tempo_cache) driven through its public operations
Next ==
    \/ \E call \in SpecCalls : Get("tempo", call) /\ UNCHANGED Others
    \/ \E call \in SpecCalls, v \in Payloads :
          Set("tempo", call, v) /\ UNCHANGED Others
    \/ Clear("tempo") /\ UNCHANGED Others
    \/ Stats("tempo") /\ UNCHANGED Others
    \/ Tick /\ UNCHANGED Others

Spec == Init /\ [][Next]_vars

\* One function decorated with @cached(tempo_cache), called with any of the
\* calls and returning any result, and the cache cleared at any time
NextCached ==
    \/ \E call \in SpecCalls, r \in Results :
          Cached("tempo", call, r) /\ UNCHANGED Others
    \/ Clear("tempo") /\ UNCHANGED Others
    \/ Tick /\ UNCHANGED Others

SpecCached == Init /\ [][NextCached]_vars

\* what TempoService.get_pollutant_data returns: a data dictionary, or None
\* when there is no file or no value at the location
AppResults == {"data", None}

\* The application: UnifiedForecastService.get_forecast on forecast_cache
\* (the only caller of TempoService.get_pollutant_data on tempo_cache),
\* GET /cache/stats and POST /cache/clear
NextApp ==
    \/ \E call \in AppCalls, r \in AppResults, o \in BOOLEAN :
          GetForecast(call, r, o) /\ UNCHANGED Others
    \/ CacheStats /\ UNCHANGED Others
    \/ CacheClear /\ UNCHANGED Others
    \/ Tick /\ UNCHANGED Others

SpecApp == Init /\ [][NextApp]_vars

\* ------------------------------------------------- arguments json rejects
\* a keyword value json.dumps cannot serialise (a set, a datetime, an
\* object): _make_key raises TypeError for it
Unserialisable == {"object"}

\* whether json.dumps(key_data, sort_keys=True) raises for the call
MakeKeyRaises(call) ==
    \E i \in 1..Len(call.kw) : call.kw[i][2] \in Unserialisable

\* the calls of the LocationCache specification and one whose radius is not
\* serialisable
RaiseCalls ==
    SpecCalls \cup {[lat |-> 0, lon |-> 5, kw |-> <<<<"radius", "object">>>>]}

\* the values stored: TTLCache keeps a reference, whatever the value is
RaiseValues == {"data", "object"}

\* cache.get(lat, lon, **kwargs): the exception of _make_key reaches the
\* caller
TryGet(c, call) ==
    IF MakeKeyRaises(call)
    THEN /\ lastOp' = Op("get", c, NoKey, "TypeError", 0, FALSE)
         /\ UNCHANGED <<now, caches, abs, fill, fresh>>
    ELSE Get(c, call)

\* cache.set(lat, lon, value, **kwargs): the exception of _make_key reaches
\* the caller
TrySet(c, call, value) ==
    IF MakeKeyRaises(call)
    THEN /\ lastOp' = Op("set", c, NoKey, "TypeError", 0, FALSE)
         /\ UNCHANGED <<now, caches, abs, fill, fresh>>
    ELSE Set(c, call, value)

\* One LocationCache called with any keyword values
NextRaise ==
    \/ \E call \in RaiseCalls : TryGet("tempo", call) /\ UNCHANGED Others
    \/ \E call \in RaiseCalls, v \in RaiseValues :
          TrySet("tempo", call, v) /\ UNCHANGED Others
    \/ Clear("tempo") /\ UNCHANGED Others
    \/ Stats("tempo") /\ UNCHANGED Others
    \/ Tick /\ UNCHANGED Others

SpecRaise == Init /\ [][NextRaise]_vars

\* ------------------------------------------------------- key specification
\* the calls whose keys are compared: latitudes that round to -0.0, 0.0 and
\* 0.001, every longitude of the grid, keyword parameters in both orders
KeyCalls ==
    {[lat |-> la, lon |-> lo, kw |-> kw] :
        la \in {-1, 0, 3}, lo \in -MaxCoord..MaxCoord,
        kw \in {<<>>, <<P, R>>, <<R, P>>}}

InitKey ==
    /\ keyTest \in {[NoKeyTest EXCEPT !.stage = "args", !.a = a, !.b = b] :
                       a \in KeyCalls, b \in KeyCalls}
    /\ threads = [t \in Threads |-> IdleThread]
    /\ pred = NoPred
    /\ now = 0
    /\ caches = [c \in CacheNames |-> EmptyCache]
    /\ abs = [c \in CacheNames |-> [k \in Keys |-> NoSet]]
    /\ fill = [c \in CacheNames |-> EmptyFill]
    /\ fresh = [c \in CacheNames |-> FALSE]
    /\ lastOp = Op("init", "tempo", NoKey, None, 0, FALSE)

\* tempo_cache.set(lat, lon, 'data', **kwargs) with the first call
KeySet ==
    /\ keyTest.stage = "args"
    /\ caches' = [caches EXCEPT
                    !["tempo"] = LCSet(caches["tempo"], keyTest.a, "data", now)]
    /\ keyTest' = [keyTest EXCEPT !.stage = "set",
                                  !.ka = MakeKey(keyTest.a.lat, keyTest.a.lon,
                                                 keyTest.a.kw)]
    /\ lastOp' = Op("set", "tempo", KeyOf(keyTest.a), "data", 0, FALSE)
    /\ UNCHANGED <<now, abs, fill, fresh, threads, pred>>

\* tempo_cache.get(lat, lon, **kwargs) with the second call
KeyGet ==
    LET r == LCGet(caches["tempo"], keyTest.b, now)
    IN  /\ keyTest.stage = "set"
        /\ caches' = [caches EXCEPT !["tempo"] = r.st]
        /\ keyTest' = [keyTest EXCEPT !.stage = "got",
                                      !.kb = MakeKey(keyTest.b.lat, keyTest.b.lon,
                                                     keyTest.b.kw),
                                      !.ret = r.ret]
        /\ lastOp' = Op("get", "tempo", KeyOf(keyTest.b), r.ret, 0, FALSE)
        /\ UNCHANGED <<now, abs, fill, fresh, threads, pred>>

NextKey == KeySet \/ KeyGet

SpecKey == InitKey /\ [][NextKey]_vars

\* ------------------------------------------------ concurrent specification
\* LocationCache holds no lock and TTLCache is plain Python, so the threads
\* of the server interleave between the statements of its methods.  The
\* operators below are those methods on a state another thread may have
\* left half updated: err says that KeyError was raised.

\* TTLCache.expire; Cache.__delitem__ raises KeyError for a link whose key
\* is not in data
RECURSIVE ExpireC(_, _)
ExpireC(st, time) ==
    IF st.ring # <<>> /\ ~(time < st.expires[Head(st.ring)])
    THEN IF Head(st.ring) \in DOMAIN st.data
         THEN ExpireC(DelEntry(st, Head(st.ring)), time)
         ELSE [st |-> st, err |-> TRUE]
    ELSE [st |-> st, err |-> FALSE]

\* TTLCache.popitem: expire, next(iter(links)), pop(key)
PopItemC(st, time) ==
    LET e == ExpireC(st, time)
    IN  IF e.err \/ e.st.links = <<>> THEN [st |-> e.st, err |-> TRUE]
        ELSE IF Head(e.st.links) \in DOMAIN e.st.data
        THEN [st |-> DelEntry(e.st, Head(e.st.links)), err |-> FALSE]
        ELSE [st |-> MoveToEnd(e.st, Head(e.st.links)), err |-> TRUE]

\* Cache.__setitem__, the eviction loop
RECURSIVE EvictC(_, _)
EvictC(st, time) ==
    IF Cardinality(DOMAIN st.data) + 1 > MaxSize
    THEN LET p == PopItemC(st, time)
         IN  IF p.err THEN p ELSE EvictC(p.st, time)
    ELSE [st |-> st, err |-> FALSE]

\* TTLCache.__setitem__ up to and including Cache.__setitem__
SetDataC(st, key, value, time) ==
    LET e == ExpireC(st, time)
        room == IF key \notin DOMAIN e.st.data
                THEN EvictC(e.st, time)
                ELSE [st |-> e.st, err |-> FALSE]
    IN  IF e.err THEN e
        ELSE IF room.err THEN room
        ELSE [st  |-> [room.st EXCEPT !.data =
                          [k \in DOMAIN room.st.data \cup {key} |->
                              IF k = key THEN value ELSE room.st.data[k]]],
              err |-> FALSE]

\* Cache.clear: popitem until KeyError, whatever raised it
RECURSIVE PopAllC(_, _)
PopAllC(st, time) ==
    LET p == PopItemC(st, time)
    IN  IF p.err THEN p.st ELSE PopAllC(p.st, time)

\* TTLCache.__getitem__ after __contains__ answered True
GetItemC(st, key, time) ==
    IF key \notin DOMAIN st.expires
    THEN IF key \in DOMAIN st.data
         THEN [st |-> st, ret |-> st.data[key]]
         ELSE [st |-> st, ret |-> "KeyError"]
    ELSE IF time < st.expires[key] /\ key \in DOMAIN st.data
         THEN [st |-> MoveToEnd(st, key), ret |-> st.data[key]]
         ELSE [st |-> MoveToEnd(st, key), ret |-> "KeyError"]

\* the calls and the cache of the concurrent specification
ConcCalls ==
    {[lat |-> 0, lon |-> 5, kw |-> <<>>], [lat |-> 0, lon |-> 10, kw |-> <<>>]}

Histories == <<abs, fill, fresh, lastOp, keyTest, pred>>

Shared == caches["tempo"]

Update(st) == caches' = [caches EXCEPT !["tempo"] = st]

Done(t, ret) ==
    threads' = [threads EXCEPT ![t] = [IdleThread EXCEPT !.ret = ret]]

\* get, `key in self`: a miss returns None at once
GetContains(t, call) ==
    /\ threads[t].pc = "idle"
    /\ IF Contains(Shared, KeyOf(call), now)
       THEN threads' = [threads EXCEPT ![t] =
                [pc |-> "get_item", key |-> KeyOf(call), val |-> None,
                 time |-> now, ret |-> None]]
       ELSE Done(t, None)
    /\ UNCHANGED <<now, caches, Histories>>

\* get, `self[key]`
GetItem(t) ==
    LET r == GetItemC(Shared, threads[t].key, threads[t].time)
    IN  /\ threads[t].pc = "get_item"
        /\ Update(r.st)
        /\ Done(t, r.ret)
        /\ UNCHANGED <<now, Histories>>

\* set, expire and Cache.__setitem__
SetData(t, call, value) ==
    LET r == SetDataC(Shared, KeyOf(call), value, now)
    IN  /\ threads[t].pc = "idle"
        /\ Update(r.st)
        /\ IF r.err THEN Done(t, "KeyError")
           ELSE threads' = [threads EXCEPT ![t] =
                   [pc |-> "set_link", key |-> KeyOf(call), val |-> value,
                    time |-> now, ret |-> None]]
        /\ UNCHANGED <<now, Histories>>

\* set, the link
SetLinkStep(t) ==
    /\ threads[t].pc = "set_link"
    /\ Update(SetLink(Shared, threads[t].key, threads[t].time))
    /\ Done(t, None)
    /\ UNCHANGED <<now, Histories>>

\* clear, expire
ClearExpire(t) ==
    LET r == ExpireC(Shared, now)
    IN  /\ threads[t].pc = "idle"
        /\ Update(r.st)
        /\ IF r.err THEN Done(t, "KeyError")
           ELSE threads' = [threads EXCEPT ![t] =
                   [pc |-> "clear_pop", key |-> NoKey, val |-> None,
                    time |-> now, ret |-> None]]
        /\ UNCHANGED <<now, Histories>>

\* clear, Cache.clear
ClearPop(t) ==
    /\ threads[t].pc = "clear_pop"
    /\ Update(PopAllC(Shared, threads[t].time))
    /\ Done(t, None)
    /\ UNCHANGED <<now, Histories>>

\* the timer advances
TickC ==
    /\ now < MaxTime
    /\ now' = now + 1
    /\ UNCHANGED <<caches, threads, Histories>>

NextConc ==
    \/ \E t \in Threads, call \in ConcCalls : GetContains(t, call)
    \/ \E t \in Threads : GetItem(t)
    \/ \E t \in Threads, call \in ConcCalls : SetData(t, call, "data")
    \/ \E t \in Threads : SetLinkStep(t)
    \/ \E t \in Threads : ClearExpire(t)
    \/ \E t \in Threads : ClearPop(t)
    \/ TickC

SpecConc == Init /\ [][NextConc]_vars

\* --------------------------------------------------------------- arithmetic
\* The forecaster computes in floating point; the model computes the same
\* expressions over the rationals, a value being a fraction in lowest terms
\* with a positive denominator.
Abs(n) == IF n < 0 THEN -n ELSE n

RECURSIVE Gcd(_, _)
Gcd(a, b) == IF b = 0 THEN a ELSE Gcd(b, a % b)

Frac(n, d) ==
    LET g == Gcd(Abs(n), Abs(d))
        s == IF d < 0 THEN -1 ELSE 1
    IN  [num |-> s * (n \div g), den |-> s * (d \div g)]

FInt(n) == [num |-> n, den |-> 1]

FAdd(a, b) ==
    LET g == Gcd(a.den, b.den)
    IN  Frac(a.num * (b.den \div g) + b.num * (a.den \div g),
             a.den * (b.den \div g))

FNeg(a) == [num |-> -a.num, den |-> a.den]

FSub(a, b) == FAdd(a, FNeg(b))

FMul(a, b) ==
    LET g1 == Gcd(Abs(a.num), b.den)
        g2 == Gcd(Abs(b.num), a.den)
    IN  Frac((a.num \div g1) * (b.num \div g2),
             (a.den \div g2) * (b.den \div g1))

FDiv(a, b) == FMul(a, Frac(b.den, b.num))

FLess(a, b) == a.num * b.den < b.num * a.den

\* int(x): truncation towards zero
Trunc(a) ==
    IF a.num >= 0 THEN a.num \div a.den ELSE -((-a.num) \div a.den)

\* round(x, digits) for x >= 0 as a count of units of 1/scale, ties to even
RoundTo(a, scale) ==
    LET n == a.num * scale
        q == n \div a.den
        r == n % a.den
    IN  IF 2 * r > a.den \/ (2 * r = a.den /\ q % 2 = 1) THEN q + 1 ELSE q

\* np.sum, np.mean and np.max of a sequence of fractions
RECURSIVE FSum(_)
FSum(seq) == IF seq = <<>> THEN FInt(0) ELSE FAdd(Head(seq), FSum(Tail(seq)))

FMean(seq) == FDiv(FSum(seq), FInt(Len(seq)))

RECURSIVE FMax(_)
FMax(seq) ==
    IF Len(seq) = 1 THEN Head(seq)
    ELSE LET m == FMax(Tail(seq))
         IN  IF FLess(m, Head(seq)) THEN Head(seq) ELSE m

\* -------------------------------------------------------------- forecaster
\* Timestamps are whole hours; concentrations are whole multiples of
\* 1e14 molecules/cm^2.

\* "Need at least 3 data points"
MinPoints == 3

\* (mutant) LinearRegression(fit_intercept=False): the line through the
\* origin
FitNoIntercept(X, y) ==
    LET sxx == FSum([i \in 1..Len(X) |-> FMul(X[i], X[i])])
        sxy == FSum([i \in 1..Len(X) |-> FMul(X[i], y[i])])
    IN  [coef |-> IF sxx.num = 0 THEN FInt(0) ELSE FDiv(sxy, sxx),
         intercept |-> FInt(0)]

\* LinearRegression().fit(X, y) with one feature: X and y are centred and
\* the least-squares problem solved; when every x is the same the centred X
\* is zero and the minimum-norm solution has coefficient 0
Fit(X, y) ==
    LET xm == FMean(X)
        ym == FMean(y)
        sxx == FSum([i \in 1..Len(X) |->
                       FMul(FSub(X[i], xm), FSub(X[i], xm))])
        sxy == FSum([i \in 1..Len(X) |->
                       FMul(FSub(X[i], xm), FSub(y[i], ym))])
        coef == IF sxx.num = 0 THEN FInt(0) ELSE FDiv(sxy, sxx)
    IN  [coef |-> coef, intercept |-> FSub(ym, FMul(coef, xm))]

\* model.predict([[x]])[0]
ModelPredict(model, x) == FAdd(model.intercept, FMul(model.coef, x))

\* the EPA NO2 breakpoints: c_low, c_high, aqi_low, aqi_high
Breakpoints ==
    <<<<0, 53, 0, 50>>, <<54, 100, 51, 100>>, <<101, 360, 101, 150>>,
      <<361, 649, 151, 200>>, <<650, 1249, 201, 300>>,
      <<1250, 2049, 301, 500>>>>

GetAqiCategory(aqi) ==
    IF aqi <= 50 THEN "Good"
    ELSE IF aqi <= 100 THEN "Moderate"
    ELSE IF aqi <= 150 THEN "Unhealthy for Sensitive Groups"
    ELSE IF aqi <= 200 THEN "Unhealthy"
    ELSE IF aqi <= 300 THEN "Very Unhealthy"
    ELSE "Hazardous"

GetHealthAdvice(aqi) ==
    IF aqi <= 50 THEN "Excellent air quality expected"
    ELSE IF aqi <= 100 THEN "Moderate air quality expected"
    ELSE IF aqi <= 150 THEN "Limit prolonged outdoor exposure"
    ELSE IF aqi <= 200 THEN "Reduce outdoor activities tomorrow"
    ELSE IF aqi <= 300 THEN "Avoid outdoor activities tomorrow"
    ELSE "Health alert: Remain indoors tomorrow"

\* ppb = (no2_molecules_cm2 / 1e15) * 20
Ppb(no2) == FMul(no2, FInt(2))

\* (mutant) the interpolated value returned for a concentration beyond the
\* last breakpoint as well
CalculateAqiUnbounded(no2) ==
    LET ppb == Ppb(no2)
        b == Breakpoints[6]
        aqi == FAdd(FMul(Frac(b[4] - b[3], b[2] - b[1]),
                         FSub(ppb, FInt(b[1]))), FInt(b[3]))
    IN  [aqi |-> Trunc(aqi), category |-> GetAqiCategory(Trunc(aqi)),
         advice |-> GetHealthAdvice(Trunc(aqi))]

\* TEMPOPredictor._calculate_aqi_from_no2: the first breakpoint that holds
\* ppb is interpolated; a ppb no breakpoint holds (negative, between two
\* breakpoints, above the last) gets 500
CalculateAqi(no2) ==
    LET ppb == Ppb(no2)
        hit == {i \in 1..Len(Breakpoints) :
                   /\ ~FLess(ppb, FInt(Breakpoints[i][1]))
                   /\ ~FLess(FInt(Breakpoints[i][2]), ppb)}
    IN  IF hit = {}
        THEN [aqi |-> 500, category |-> "Hazardous",
              advice |-> "Health alert: Remain indoors"]
        ELSE LET b == Breakpoints[CHOOSE i \in hit : \A j \in hit : i <= j]
                 aqi == FAdd(FMul(Frac(b[4] - b[3], b[2] - b[1]),
                                  FSub(ppb, FInt(b[1]))), FInt(b[3]))
             IN  [aqi |-> Trunc(aqi), category |-> GetAqiCategory(Trunc(aqi)),
                  advice |-> GetHealthAdvice(Trunc(aqi))]

\* a time series: the dictionary load_tempo_timeseries returns
Series(timestamps, no2_values) ==
    [timestamps |-> timestamps, no2_values |-> no2_values]

\* files.sort(key=os.path.getmtime): a stable sort
RECURSIVE InsertByMtime(_, _)
InsertByMtime(sorted, f) ==
    IF sorted = <<>> THEN <<f>>
    ELSE IF f.mtime < Head(sorted).mtime THEN <<f>> \o sorted
    ELSE <<Head(sorted)>> \o InsertByMtime(Tail(sorted), f)

\* (mutant) the files left in the order glob lists them
SortKeepOrder(files) == files

RECURSIVE SortByMtime(_)
SortByMtime(files) ==
    IF files = <<>> THEN <<>>
    ELSE InsertByMtime(SortByMtime(SubSeq(files, 1, Len(files) - 1)),
                       files[Len(files)])

\* the loop of load_tempo_timeseries: a file whose read failed or gave no
\* value, or whose name lacks TEMPO or NO2, is skipped
Usable(f) == f.ok /\ f.tempo

\* (mutant) the loop left at the first file whose read fails
ObservationsUntilFailure(files) ==
    LET failed == {i \in DOMAIN files : ~files[i].ok}
        upto == IF failed = {} THEN Len(files)
                ELSE (CHOOSE i \in failed : \A j \in failed : i <= j) - 1
        kept == SelectSeq(SubSeq(files, 1, upto), Usable)
    IN  Series([i \in 1..Len(kept) |-> kept[i].mtime],
               [i \in 1..Len(kept) |-> kept[i].value])

Observations(files) ==
    LET kept == SelectSeq(files, Usable)
    IN  Series([i \in 1..Len(kept) |-> kept[i].mtime],
               [i \in 1..Len(kept) |-> kept[i].value])

\* (mutant) a series of any length returned
LoadAnyLength(files) == Observations(SortByMtime(files))

\* TEMPOPredictor.load_tempo_timeseries
LoadTempoTimeseries(files) ==
    LET series == Observations(SortByMtime(files))
    IN  IF files = <<>> THEN Absent
        ELSE IF Len(series.timestamps) < MinPoints THEN Absent
        ELSE series

\* hours since the first observation
HoursElapsed(timestamps) ==
    [i \in 1..Len(timestamps) |-> FInt(timestamps[i] - timestamps[1])]

\* (mutant) the horizon counted from the first observation
FutureHoursFromFirst(timestamps) == FInt(24)

\* future_hours = hours_since_start + 24
FutureHours(timestamps) ==
    FInt((timestamps[Len(timestamps)] - timestamps[1]) + 24)

\* (mutant) the cap set at the limit itself
ClampAtLimit(predicted_no2, no2_values) ==
    LET max_observed == FMax(no2_values)
    IN  IF FLess(FMul(max_observed, FInt(10)), predicted_no2)
        THEN FMul(max_observed, FInt(10))
        ELSE IF FLess(predicted_no2, FInt(0)) THEN FMean(no2_values)
        ELSE predicted_no2

\* "Constrain prediction to reasonable bounds"
Clamp(predicted_no2, no2_values) ==
    LET max_observed == FMax(no2_values)
    IN  IF FLess(FMul(max_observed, FInt(10)), predicted_no2)
        THEN FMul(max_observed, Frac(12, 10))
        ELSE IF FLess(predicted_no2, FInt(0)) THEN FMean(no2_values)
        ELSE predicted_no2

\* r_squared = 1 - (ss_res / ss_tot) if ss_tot > 0 else 0
RSquared(y, y_pred) ==
    LET ym == FMean(y)
        ss_res == FSum([i \in 1..Len(y) |->
                          FMul(FSub(y[i], y_pred[i]), FSub(y[i], y_pred[i]))])
        ss_tot == FSum([i \in 1..Len(y) |->
                          FMul(FSub(y[i], ym), FSub(y[i], ym))])
    IN  IF FLess(FInt(0), ss_tot) THEN FSub(FInt(1), FDiv(ss_res, ss_tot))
        ELSE FInt(0)

\* (mutant) one threshold for high and medium
ConfidenceOneThreshold(r_squared) ==
    IF FLess(Frac(4, 10), r_squared) THEN "high" ELSE "low"

Confidence(r_squared) ==
    IF FLess(Frac(7, 10), r_squared) THEN "high"
    ELSE IF FLess(Frac(4, 10), r_squared) THEN "medium"
    ELSE "low"

\* TEMPOPredictor.predict_no2_24h
PredictNo2(timeseries) ==
    LET timestamps == timeseries.timestamps
        y == [i \in 1..Len(timestamps) |-> FInt(timeseries.no2_values[i])]
        X == HoursElapsed(timestamps)
        model == Fit(X, y)
        predicted_no2 == Clamp(ModelPredict(model, FutureHours(timestamps)), y)
        aqi_info == CalculateAqi(predicted_no2)
        y_pred == [i \in 1..Len(X) |-> ModelPredict(model, X[i])]
        r_squared == RSquared(y, y_pred)
    IN  IF Len(timestamps) < MinPoints THEN Absent
        ELSE [predicted_no2 |-> predicted_no2,
              predicted_aqi |-> aqi_info.aqi,
              category |-> aqi_info.category,
              advice |-> aqi_info.advice,
              prediction_time |-> timestamps[Len(timestamps)] + 24,
              confidence |-> Confidence(r_squared),
              r_squared |-> RoundTo(r_squared, 1000),
              data_points_used |-> Len(timestamps)]

\* the concentrations observed, in units of 1e14 molecules/cm^2
NO2Values == {-1, 8, 12}

\* a file of the data directory: when it was modified, whether
\* get_nearest_value gave a value, the value, and whether its name holds
\* TEMPO and NO2
FileChoices ==
    {[mtime |-> h, ok |-> TRUE, value |-> v, tempo |-> TRUE] :
        h \in 0..MaxHour, v \in NO2Values}
    \cup {[mtime |-> 0, ok |-> FALSE, value |-> 0, tempo |-> TRUE]}
    \cup {[mtime |-> 0, ok |-> TRUE, value |-> 8, tempo |-> FALSE]}

\* four hourly files with 1.0e15, 1.1e15, 1.2e15 and 1.3e15
ScenarioFiles ==
    [i \in 1..4 |->
        [mtime |-> i - 1, ok |-> TRUE, value |-> 9 + i, tempo |-> TRUE]]

\* the four hourly files and, listed anywhere among them, one file whose
\* read fails
FaultyScenarioFiles ==
    {SubSeq(ScenarioFiles, 1, p)
        \o <<[mtime |-> 1, ok |-> FALSE, value |-> 0, tempo |-> TRUE]>>
        \o SubSeq(ScenarioFiles, p + 1, Len(ScenarioFiles)) :
        p \in 0..Len(ScenarioFiles)}

\* the data directory in the order glob lists it
FileLists ==
    UNION {[1..n -> FileChoices] : n \in 0..MaxObs}
        \cup {ScenarioFiles} \cup FaultyScenarioFiles

InitForecast ==
    /\ pred \in {[NoPred EXCEPT !.stage = "files", !.files = f] :
                    f \in FileLists}
    /\ keyTest = NoKeyTest
    /\ threads = [t \in Threads |-> IdleThread]
    /\ now = 0
    /\ caches = [c \in CacheNames |-> EmptyCache]
    /\ abs = [c \in CacheNames |-> [k \in Keys |-> NoSet]]
    /\ fill = [c \in CacheNames |-> EmptyFill]
    /\ fresh = [c \in CacheNames |-> FALSE]
    /\ lastOp = Op("init", "tempo", NoKey, None, 0, FALSE)

\* TEMPOPredictor.generate_forecast: load the series, predict from it
GenerateForecast ==
    LET timeseries == LoadTempoTimeseries(pred.files)
        prediction == IF timeseries = Absent THEN Absent
                      ELSE PredictNo2(timeseries)
    IN  /\ pred.stage = "files"
        /\ pred' = [pred EXCEPT
                      !.stage = "forecast",
                      !.series = timeseries,
                      !.result = prediction,
                      !.error = IF timeseries = Absent
                                THEN "Insufficient data for prediction"
                                ELSE IF prediction = Absent
                                THEN "Prediction failed"
                                ELSE "none"]
        /\ UNCHANGED <<now, caches, abs, fill, fresh, lastOp, keyTest, threads>>

\* TEMPOPredictor.predict_no2_24h called with the observations as they
\* come, in any order and of any length
PredictDirect ==
    LET timeseries == Observations(pred.files)
    IN  /\ pred.stage = "files"
        /\ pred' = [pred EXCEPT !.stage = "direct",
                                !.series = timeseries,
                                !.result = PredictNo2(timeseries)]
        /\ UNCHANGED <<now, caches, abs, fill, fresh, lastOp, keyTest, threads>>

NextForecast == GenerateForecast \/ PredictDirect

SpecForecast == InitForecast /\ [][NextForecast]_vars

\* ------------------------------------------------------- index conversion
\* the concentrations predict_no2_24h hands to _calculate_aqi_from_no2: from
\* below zero to beyond the last breakpoint, in quarters of a unit
Concentrations == {Frac(k, 4) : k \in -8..(4 * MaxConc)}

InitAqi ==
    /\ pred \in {[NoPred EXCEPT !.stage = "conc",
                                 !.result = [predicted_no2 |-> c]] :
                    c \in Concentrations}
    /\ keyTest = NoKeyTest
    /\ threads = [t \in Threads |-> IdleThread]
    /\ now = 0
    /\ caches = [c \in CacheNames |-> EmptyCache]
    /\ abs = [c \in CacheNames |-> [k \in Keys |-> NoSet]]
    /\ fill = [c \in CacheNames |-> EmptyFill]
    /\ fresh = [c \in CacheNames |-> FALSE]
    /\ lastOp = Op("init", "tempo", NoKey, None, 0, FALSE)

\* predict_no2_24h, "Convert NO2 to AQI": predicted_aqi, category and
\* advice come from _calculate_aqi_from_no2(predicted_no2)
ConvertToAqi ==
    LET aqi_info == CalculateAqi(pred.result.predicted_no2)
    IN  /\ pred.stage = "conc"
        /\ pred' = [pred EXCEPT
                      !.stage = "aqi",
                      !.result = [predicted_no2 |-> pred.result.predicted_no2,
                                  predicted_aqi |-> aqi_info.aqi,
                                  category |-> aqi_info.category,
                                  advice |-> aqi_info.advice]]
        /\ UNCHANGED <<now, caches, abs, fill, fresh, lastOp, keyTest, threads>>

\* AQICalculator.NO2_BREAKPOINTS: c_low, c_high, aqi_low, aqi_high
NO2_BREAKPOINTS ==
    <<<<0, 53, 0, 50>>, <<54, 100, 51, 100>>, <<101, 360, 101, 150>>,
      <<361, 649, 151, 200>>, <<650, 1249, 201, 300>>,
      <<1250, 2049, 301, 500>>>>

\* AQICalculator.molecules_cm2_to_ppb: (value / 1e15) * 20
MoleculesCm2ToPpb(value) == FMul(value, FInt(2))

\* AQICalculator._get_category
GetCategory(aqi) ==
    IF aqi <= 50 THEN "Good"
    ELSE IF aqi <= 100 THEN "Moderate"
    ELSE IF aqi <= 150 THEN "Unhealthy for Sensitive Groups"
    ELSE IF aqi <= 200 THEN "Unhealthy"
    ELSE IF aqi <= 300 THEN "Very Unhealthy"
    ELSE "Hazardous"

\* the loop over NO2_BREAKPOINTS from row i on: the first row that holds
\* ppb is interpolated; no row: the loop ends without returning
RECURSIVE FromRow(_, _)
FromRow(i, ppb) ==
    IF i > Len(NO2_BREAKPOINTS)
    THEN [found |-> FALSE, aqi |-> FInt(500)]
    ELSE LET c_low == NO2_BREAKPOINTS[i][1]
             c_high == NO2_BREAKPOINTS[i][2]
             aqi_low == NO2_BREAKPOINTS[i][3]
             aqi_high == NO2_BREAKPOINTS[i][4]
             aqi == FAdd(FMul(Frac(aqi_high - aqi_low, c_high - c_low),
                              FSub(ppb, FInt(c_low))), FInt(aqi_low))
         IN  IF ~FLess(ppb, FInt(c_low)) /\ ~FLess(FInt(c_high), ppb)
             THEN [found |-> TRUE, aqi |-> aqi]
             ELSE FromRow(i + 1, ppb)

\* (mutant) the interpolated value rounded to the nearest integer
AQICalculatorCalculateAqiRounded(pollutant, value, unit) ==
    LET row == FromRow(1, MoleculesCm2ToPpb(value))
    IN  IF pollutant = "NO2" /\ unit = "molecules/cm^2"
        THEN IF row.found
             THEN [aqi |-> RoundTo(row.aqi, 1),
                   category |-> GetCategory(RoundTo(row.aqi, 1))]
             ELSE [aqi |-> 500, category |-> "Hazardous"]
        ELSE [aqi |-> None, category |-> "Unknown"]

\* AQICalculator.calculate_aqi(pollutant, value, unit): aqi and category;
\* of the names and units it is called with, "NO2" is the one that holds
\* 'no2' and "molecules/cm^2" the one that holds 'molecules'
AQICalculatorCalculateAqi(pollutant, value, unit) ==
    LET row == FromRow(1, MoleculesCm2ToPpb(value))
    IN  IF pollutant = "NO2" /\ unit = "molecules/cm^2"
        THEN IF row.found
             THEN [aqi |-> Trunc(row.aqi),
                   category |-> GetCategory(Trunc(row.aqi))]
             ELSE [aqi |-> 500, category |-> "Hazardous"]
        ELSE [aqi |-> None, category |-> "Unknown"]

\* get_forecast, "Process satellite data and calculate AQI": the
\* concentration handed to AQICalculator.calculate_aqi
ServiceAqi(pollutant, unit) ==
    LET aqi_data == AQICalculatorCalculateAqi(pollutant,
                        pred.result.predicted_no2, unit)
    IN  /\ pred.stage = "conc"
        /\ pred' = [pred EXCEPT
                      !.stage = "service",
                      !.result = [predicted_no2 |-> pred.result.predicted_no2,
                                  pollutant |-> pollutant,
                                  unit |-> unit,
                                  aqi |-> aqi_data.aqi,
                                  category |-> aqi_data.category]]
        /\ UNCHANGED <<now, caches, abs, fill, fresh, lastOp, keyTest, threads>>

NextAqi ==
    \/ ConvertToAqi
    \/ \E pollutant \in {"NO2", "O3"}, unit \in {"molecules/cm^2", "ppb"} :
          ServiceAqi(pollutant, unit)

SpecAqi == InitAqi /\ [][NextAqi]_vars

\* ----------------------------------------------------------- configuration
\* config.py: the cache settings of each configuration class; a subclass
\* inherits what it does not assign
ConfigClasses ==
    [Config            |-> [CACHE_TTL_SECONDS |-> 1800, CACHE_MAX_SIZE |-> 1000],
     ProductionConfig  |-> [CACHE_TTL_SECONDS |-> 3600, CACHE_MAX_SIZE |-> 1000],
     DevelopmentConfig |-> [CACHE_TTL_SECONDS |-> 300,  CACHE_MAX_SIZE |-> 1000]]

\* config = DevelopmentConfig()
config == ConfigClasses.DevelopmentConfig

\* LocationCache.__init__(ttl=None, max_size=None): "ttl or config...", so
\* None and 0 (written 0 here) both take the configured value
LocationCacheInit(ttl, max_size) ==
    [ttl      |-> IF ttl # 0 THEN ttl ELSE config.CACHE_TTL_SECONDS,
     max_size |-> IF max_size # 0 THEN max_size ELSE config.CACHE_MAX_SIZE]

\* tempo_cache = LocationCache()
tempo_cache == LocationCacheInit(0, 0)

\* forecast_cache = LocationCache(ttl=1800)
forecast_cache == LocationCacheInit(1800, 0)

\* the settings of the instance a cache name stands for
SettingsOf(c) == IF c = "tempo" THEN tempo_cache ELSE forecast_cache

\* ------------------------------------------- concurrent calls of a wrapper
\* TempoService.get_pollutant_data, decorated with @cached(tempo_cache),
\* called from several request threads. The wrapper takes no lock: a thread
\* can be descheduled between its lookup, the call of the wrapped function,
\* and the store. Each LocationCache operation is taken as one step here.

\* what an invocation that started at time t returns: its data, marked
\* with the time the invocation started
Stamps == <<"at0", "at1", "at2", "at3", "at4", "at5", "at6", "at7">>

\* when the invocation that produced v started
Born(v) == CHOOSE t \in 0..(Len(Stamps) - 1) : Stamps[t + 1] = v

\* cached_result = cache_instance.get(lat, lon, **kwargs); a value that is
\* not None is returned at once
WrapLookup(t, call) ==
    LET r == LCGet(caches["tempo"], call, now)
    IN  /\ threads[t].pc = "idle"
        /\ caches' = [caches EXCEPT !["tempo"] = r.st]
        /\ IF r.ret # None
           THEN /\ threads' = [threads EXCEPT ![t] = IdleThread]
                /\ lastOp' = Op("cached", "tempo", KeyOf(call), r.ret, 0, FALSE)
           ELSE /\ threads' = [threads EXCEPT ![t] =
                                  [IdleThread EXCEPT !.pc = "missed",
                                                     !.key = KeyOf(call)]]
                /\ lastOp' = Op("lookup", "tempo", KeyOf(call), None, 0, FALSE)
        /\ UNCHANGED <<now, abs, fill, fresh, keyTest, pred>>

\* result = func(lat, lon, *args, **kwargs) begins
WrapInvoke(t) ==
    /\ threads[t].pc = "missed"
    /\ threads' = [threads EXCEPT ![t].pc = "running", ![t].time = now]
    /\ lastOp' = Op("invoke", "tempo", threads[t].key, None, 0, TRUE)
    /\ UNCHANGED <<now, caches, abs, fill, fresh, keyTest, pred>>

\* func returns; a result that is not None is stored with
\* cache_instance.set(lat, lon, result, **kwargs), and returned
WrapReturn(t, result) ==
    /\ threads[t].pc = "running"
    /\ caches' = [caches EXCEPT !["tempo"] =
                     IF result # None
                     THEN TTLCacheSetItem(@, threads[t].key, result, now)
                     ELSE @]
    /\ threads' = [threads EXCEPT ![t] = IdleThread]
    /\ lastOp' = Op("return", "tempo", threads[t].key, result, 0, TRUE)
    /\ UNCHANGED <<now, abs, fill, fresh, keyTest, pred>>

\* the timer advances by one tick, whatever the threads are doing
TickW ==
    /\ now < MaxTime
    /\ now' = now + 1
    /\ lastOp' = Op("tick", "tempo", NoKey, None, 0, FALSE)
    /\ UNCHANGED <<caches, abs, fill, fresh, keyTest, threads, pred>>

NextWrap ==
    \/ \E t \in Threads, call \in AppCalls : WrapLookup(t, call)
    \/ \E t \in Threads : WrapInvoke(t)
    \/ \E t \in Threads :
          \E result \in {Stamps[threads[t].time + 1], None} :
              WrapReturn(t, result)
    \/ TickW

SpecWrap == Init /\ [][NextWrap]_vars

\* ---------------------------------------------- extra positional arguments
\* a function decorated with @cached(tempo_cache) that takes a radius after
\* lat and lon, passed positionally (args) or by keyword (kw):
\* wrapper(lat, lon, *args, **kwargs)
ArgCalls ==
    <<[lat |-> 0, lon |-> 5, kw |-> <<>>, args |-> <<>>],
      [lat |-> 0, lon |-> 5, kw |-> <<>>, args |-> <<"25">>],
      [lat |-> 0, lon |-> 5, kw |-> <<>>, args |-> <<"50">>],
      [lat |-> 0, lon |-> 5, kw |-> <<P, R>>, args |-> <<>>],
      [lat |-> 0, lon |-> 10, kw |-> <<>>, args |-> <<"25">>]>>

\* func(lat, lon, *args, **kwargs): a pure function of all its arguments,
\* returning something different for each of the calls
ResultOf(call) ==
    LET i == CHOOSE j \in DOMAIN ArgCalls : ArgCalls[j] = call
    IN  <<"answer1", "answer2", "answer3", "answer4", "answer5">>[i]

\* a call of the decorated function: the wrapper looks up and stores with
\* cache_instance.get(lat, lon, **kwargs) and
\* cache_instance.set(lat, lon, result, **kwargs); keyTest.a records the
\* call
CachedArgs(call) ==
    /\ Cached("tempo", call, ResultOf(call))
    /\ keyTest' = [NoKeyTest EXCEPT !.stage = "call", !.a = call]
    /\ UNCHANGED <<threads, pred>>

NextArgs ==
    \/ \E i \in DOMAIN ArgCalls : CachedArgs(ArgCalls[i])
    \/ Tick /\ UNCHANGED Others

SpecArgs == Init /\ [][NextArgs]_vars

\* ------------------------------------------------------------ breath score
\* BreathScoreService.MASK_RECOMMENDATIONS, in the order of the dictionary:
\* low, high, rating, required, type
MASK_RECOMMENDATIONS ==
    <<<<90, 100, "Excellent", FALSE, "None">>,
      <<75, 89, "Good", FALSE, "None (optional for sensitive groups)">>,
      <<60, 74, "Moderate", FALSE, "Cloth mask (optional)">>,
      <<45, 59, "Unhealthy for Sensitive Groups", TRUE,
        "KN95 or surgical mask">>,
      <<30, 44, "Unhealthy", TRUE, "N95 mask (properly fitted)">>,
      <<15, 29, "Very Unhealthy", TRUE, "N95/P100 respirator">>,
      <<0, 14, "Hazardous", TRUE, "P100 respirator + stay indoors">>>>

Recommendation(row) ==
    [rating |-> row[3], required |-> row[4], type |-> row[5]]

\* BreathScoreService._get_mask_recommendation: the first band with
\* low <= breath_score <= high, and the (0, 14) band as the fallback
GetMaskRecommendation(breath_score) ==
    LET held == {i \in DOMAIN MASK_RECOMMENDATIONS :
                    /\ ~FLess(breath_score, FInt(MASK_RECOMMENDATIONS[i][1]))
                    /\ ~FLess(FInt(MASK_RECOMMENDATIONS[i][2]), breath_score)}
    IN  IF held = {} THEN Recommendation(MASK_RECOMMENDATIONS[7])
        ELSE Recommendation(MASK_RECOMMENDATIONS[
                 CHOOSE i \in held : \A j \in held : i <= j])

\* BreathScoreService._aqi_to_breath_score
AqiToBreathScore(aqi) ==
    IF aqi <= 50 THEN FSub(FInt(100), FMul(Frac(aqi, 50), FInt(15)))
    ELSE IF aqi <= 100
    THEN FSub(FInt(85), FMul(Frac(aqi - 50, 50), FInt(15)))
    ELSE IF aqi <= 150
    THEN FSub(FInt(70), FMul(Frac(aqi - 100, 50), FInt(20)))
    ELSE IF aqi <= 200
    THEN FSub(FInt(50), FMul(Frac(aqi - 150, 50), FInt(20)))
    ELSE IF aqi <= 300
    THEN FSub(FInt(30), FMul(Frac(aqi - 200, 100), FInt(20)))
    ELSE LET s == FSub(FInt(10), FMul(Frac(aqi - 300, 200), FInt(10)))
         IN  IF FLess(s, FInt(0)) THEN FInt(0) ELSE s

\* BreathScoreService._calculate_wildfire_penalty; known is whether a
\* distance was given
CalculateWildfirePenalty(known, distance_km) ==
    IF ~known THEN 0
    ELSE IF distance_km < 10 THEN 30
    ELSE IF distance_km < 25 THEN 20
    ELSE IF distance_km < 50 THEN 12
    ELSE IF distance_km < 100 THEN 5
    ELSE 0

\* BreathScoreService._calculate_weather_modifier
CalculateWeatherModifier(humidity, temperature) ==
    (IF 30 <= humidity /\ humidity <= 60 THEN 2
     ELSE IF humidity < 20 \/ humidity > 80 THEN -3 ELSE 0)
    + (IF temperature < 32 \/ temperature > 95 THEN -2 ELSE 0)

\* BreathScoreService.calculate_breath_score without pollutants: the
\* score before it is rounded for display, and the recommendation
CalculateBreathScore(in) ==
    LET base_score == AqiToBreathScore(in.aqi)
        wildfire_penalty ==
            IF in.wildfires_detected
            THEN CalculateWildfirePenalty(in.known, in.wildfire_distance)
            ELSE 0
        weather_modifier ==
            CalculateWeatherModifier(in.humidity, in.temperature)
        raw == FAdd(FSub(base_score, FInt(wildfire_penalty)),
                    FInt(weather_modifier))
        breath_score ==
            IF FLess(raw, FInt(0)) THEN FInt(0)
            ELSE IF FLess(FInt(100), raw) THEN FInt(100) ELSE raw
        mask_rec == GetMaskRecommendation(breath_score)
    IN  [score |-> breath_score, rating |-> mask_rec.rating, mask |-> mask_rec]

\* the wildfire reports: none, one without a distance, one per distance
\* class
Wildfires ==
    {[wildfires_detected |-> FALSE, known |-> FALSE, wildfire_distance |-> 0],
     [wildfires_detected |-> TRUE, known |-> FALSE, wildfire_distance |-> 0]}
    \cup {[wildfires_detected |-> TRUE, known |-> TRUE,
            wildfire_distance |-> d] : d \in {5, 20, 40, 80}}

\* the arguments of calculate_breath_score: every AQI of the scale, the
\* wildfire reports, and some humidities and temperatures
BreathInputs ==
    {[aqi |-> a, wildfires_detected |-> w.wildfires_detected,
      known |-> w.known, wildfire_distance |-> w.wildfire_distance,
      humidity |-> h, temperature |-> t] :
        a \in 0..500, w \in Wildfires, h \in {10, 25, 50}, t \in {20, 70}}

InitBreath ==
    /\ pred \in {[NoPred EXCEPT !.stage = "breath", !.result = in] :
                    in \in BreathInputs}
    /\ keyTest = NoKeyTest
    /\ threads = [t \in Threads |-> IdleThread]
    /\ now = 0
    /\ caches = [c \in CacheNames |-> EmptyCache]
    /\ abs = [c \in CacheNames |-> [k \in Keys |-> NoSet]]
    /\ fill = [c \in CacheNames |-> EmptyFill]
    /\ fresh = [c \in CacheNames |-> FALSE]
    /\ lastOp = Op("init", "tempo", NoKey, None, 0, FALSE)

BreathScore ==
    /\ pred.stage = "breath"
    /\ pred' = [pred EXCEPT !.stage = "score",
                            !.result = CalculateBreathScore(pred.result)]
    /\ UNCHANGED <<now, caches, abs, fill, fresh, lastOp, keyTest, threads>>

NextBreath == BreathScore

SpecBreath == InitBreath /\ [][NextBreath]_vars

\* ------------------------------------------------------------------ claims
\* C1: get returns the value of the most recent set of its key exactly while
\* less than ttl has elapsed since that set and the entry was neither
\* cleared nor evicted; otherwise, and from now - T >= ttl on, it returns
\* None.  Stated of every key in every state, and of what each get returned.
C1_GetIffFresh ==
    \A c \in CacheNames :
        /\ \A k \in Keys :
              LET a == abs[c][k]
              IN  TTLCacheGet(caches[c], k, now).ret =
                     IF a # NoSet /\ now - a.t < Ttl THEN a.v ELSE None
        /\ (lastOp.op = "get" /\ lastOp.cache = c) =>
              LET a == abs[c][lastOp.key]
              IN  lastOp.ret =
                     IF a # NoSet /\ now - a.t < Ttl THEN a.v ELSE None

\* a get at exactly T + ttl returned None although the entry is still stored
C1_Witness ==
    /\ lastOp.op = "get"
    /\ lastOp.ret = None
    /\ lastOp.key \in DOMAIN caches[lastOp.cache].expires
    /\ caches[lastOp.cache].expires[lastOp.key] = now

\* C2: the number of entries a LocationCache holds never exceeds max_size
C2_SizeBounded ==
    \A c \in CacheNames :
        /\ Cardinality(DOMAIN caches[c].data) <= MaxSize
        /\ Len(caches[c].links) <= MaxSize

\* a set into a full cache has just evicted an entry
C2_Witness ==
    /\ lastOp.op = "set"
    /\ lastOp.evicted = 1
    /\ Cardinality(DOMAIN caches[lastOp.cache].data) = MaxSize

\* C3: after max_size + 1 distinct keys were set into an empty cache, with
\* nothing expiring and no entry read in between, exactly max_size entries
\* are left and the first key set is the one that is gone
C3_EvictsEarliest ==
    \A c \in CacheNames :
        (fill[c].ok /\ Len(fill[c].keys) = MaxSize + 1) =>
            /\ Cardinality(DOMAIN caches[c].data) = MaxSize
            /\ DOMAIN caches[c].data = Range(Tail(fill[c].keys))
            /\ Head(fill[c].keys) \notin DOMAIN caches[c].data

\* max_size + 1 distinct keys have been set into an empty cache
C3_Witness ==
    \E c \in CacheNames :
        /\ fill[c].ok
        /\ Len(fill[c].keys) = MaxSize + 1
        /\ lastOp.op = "set"

\* a thread that is inside get, set or clear
InOperation(t) == threads[t].pc # "idle"

\* C7: get, set and clear on one LocationCache exclude each other: no
\* thread is inside one of them while another thread is
C7_MutualExclusion ==
    \A t \in Threads, u \in Threads :
        (t # u) => ~(InOperation(t) /\ InOperation(u))

\* what atomic operations would guarantee between operations: data and the
\* links hold the same keys, and no operation raised KeyError
C7_NoTornState ==
    (\A t \in Threads : ~InOperation(t)) =>
        /\ DOMAIN caches["tempo"].data = DOMAIN caches["tempo"].expires
        /\ \A t \in Threads : threads[t].ret # "KeyError"

\* C8: a get that misses leaves the cache as it was: the entries, their
\* values, their expiry times and both orders
C8_MissNoEffect ==
    [][(lastOp'.op = "get" /\ lastOp'.ret = None) => caches' = caches]_vars

\* a get missed on an expired key while the cache still stored that entry
\* and a full set of entries
C8_Witness ==
    /\ lastOp.op = "get"
    /\ lastOp.ret = None
    /\ lastOp.key \in DOMAIN caches[lastOp.cache].data
    /\ Cardinality(DOMAIN caches[lastOp.cache].data) = MaxSize

\* C9: a set on a key whose entry is still retrievable replaces the value,
\* restarts the expiry clock (a get at any later time t returns the new
\* value exactly while t - T2 < ttl) and leaves the number of entries as
\* it was
C9_OverwriteRestarts ==
    [][\A c \in CacheNames :
          (/\ lastOp'.op = "set"
           /\ lastOp'.cache = c
           /\ Contains(caches[c], lastOp'.key, now))
          => /\ \A t \in now..(MaxTime + Ttl) :
                   TTLCacheGet(caches'[c], lastOp'.key, t).ret =
                      IF t - now < Ttl THEN lastOp'.ret ELSE None
             /\ TTLCacheLen(caches'[c], now).ret =
                   TTLCacheLen(caches[c], now).ret]_vars

\* a set at T2 has just overwritten the retrievable entry of a set made at
\* T1 < T2 while the cache was full: from
\* T1 + ttl to T2 + ttl the first set's ttl has elapsed and the second's
\* has not
C9_Witness ==
    /\ lastOp.op = "set"
    /\ lastOp.over >= 0
    /\ lastOp.over < now
    /\ Cardinality(DOMAIN caches[lastOp.cache].data) = MaxSize

\* two calls whose keyword parameters are the same name/value pairs and
\* whose coordinates round to the same 3-decimal numbers
SameRounded(a, b) ==
    /\ FloatValue(Round3(a.lat)) = FloatValue(Round3(b.lat))
    /\ FloatValue(Round3(a.lon)) = FloatValue(Round3(b.lon))
    /\ KwItems(a.kw) = KwItems(b.kw)

\* C4: two calls with the same keyword parameters in any order whose lat
\* and lon round to the same 3-decimal values get the same key, and a get
\* with one returns what a set with the other stored
C4_SameKey ==
    (keyTest.stage = "got" /\ SameRounded(keyTest.a, keyTest.b)) =>
        /\ keyTest.ka = keyTest.kb
        /\ keyTest.ret = "data"

\* C4 where it holds: the same when the rounded coordinates also agree in
\* sign (round(-0.0004, 3) is -0.0, which json.dumps writes as "-0.0")
C4_SameKeySigned ==
    (/\ keyTest.stage = "got"
     /\ SameRounded(keyTest.a, keyTest.b)
     /\ Round3(keyTest.a.lat) = Round3(keyTest.b.lat)
     /\ Round3(keyTest.a.lon) = Round3(keyTest.b.lon)) =>
        /\ keyTest.ka = keyTest.kb
        /\ keyTest.ret = "data"

\* a call of a cached function that invoked the wrapped function and got ret
FetchReturned(op, ret) == op.op = "cached" /\ op.invoked /\ op.ret = ret

\* a call of the same cached function with the same key as the call before
SameCall(op, op2) ==
    op.op = "cached" /\ op2.op = "cached" /\ op.cache = op2.cache
    /\ op.key = op2.key

\* C5: when the wrapped function returns None nothing is stored, and the
\* next call with the same key invokes the wrapped function again
C5_NullNotCached ==
    [][/\ FetchReturned(lastOp', None) => caches' = caches
       /\ (FetchReturned(lastOp, None) /\ SameCall(lastOp, lastOp'))
             => lastOp'.invoked]_vars

\* the call after one whose fetch returned None fetched again and got data
C5_Witness ==
    /\ lastOp.op = "cached"
    /\ lastOp.again
    /\ lastOp.invoked
    /\ lastOp.ret = "data"

\* C6: when the wrapped function returns an empty, non-null result nothing
\* is stored, and the next call with the same key invokes the wrapped
\* function again
C6_EmptyNotCached ==
    [][/\ FetchReturned(lastOp', "empty") => caches' = caches
       /\ (FetchReturned(lastOp, "empty") /\ SameCall(lastOp, lastOp'))
             => lastOp'.invoked]_vars

\* C10: after /cache/clear both caches answer None to every get and report
\* size 0 until something is set in them, and the next forecast request
\* invokes get_forecast and, inside it, the satellite fetch
C10_ClearEmptiesBoth ==
    /\ [](\A c \in CacheNames : fresh[c] =>
            /\ \A k \in Keys : TTLCacheGet(caches[c], k, now).ret = None
            /\ TTLCacheLen(caches[c], now).ret = 0)
    /\ [][lastOp'.op = "cache_clear" =>
            \A c \in CacheNames :
               /\ \A k \in Keys : TTLCacheGet(caches'[c], k, now).ret = None
               /\ TTLCacheLen(caches'[c], now).ret = 0]_vars
    /\ [][(fresh["forecast"] /\ lastOp'.op = "cached")
               => lastOp'.invoked]_vars
    /\ [][(fresh["tempo"] /\ lastOp'.op = "cached" /\ lastOp'.invoked)
               => lastOp'.nested = "fetched"]_vars

\* /cache/clear has just run while both caches held a retrievable entry
C10_Witness ==
    /\ lastOp.op = "cache_clear"
    /\ lastOp.cleared = CacheNames

\* C11: get, set, clear and stats never raise to the caller, whatever the
\* value and the keyword parameters; a call that cannot store leaves the
\* entry uncached and returns normally
C11_NeverRaises ==
    lastOp.op \in {"get", "set", "clear", "stats"} => lastOp.ret # "TypeError"

\* ------------------------------------------- what the forecaster should give
\* Ordinary least squares in closed form over the integers, for the claims
\* to compare the forecaster with: for the observations (x, y), x counted
\* in hours from the timestamp t0,
\*   Sxx = n Sum(x^2) - Sum(x)^2,  Sxy = n Sum(xy) - Sum(x) Sum(y),
\*   Syy = n Sum(y^2) - Sum(y)^2
RECURSIVE SumSeq(_)
SumSeq(seq) == IF seq = <<>> THEN 0 ELSE Head(seq) + SumSeq(Tail(seq))

Sums(s, t0) ==
    LET n == Len(s.timestamps)
        x == [i \in 1..n |-> s.timestamps[i] - t0]
        y == s.no2_values
        sx == SumSeq(x)
        sy == SumSeq(y)
    IN  [n |-> n, sx |-> sx, sy |-> sy,
         sxx |-> n * SumSeq([i \in 1..n |-> x[i] * x[i]]) - sx * sx,
         sxy |-> n * SumSeq([i \in 1..n |-> x[i] * y[i]]) - sx * sy,
         syy |-> n * SumSeq([i \in 1..n |-> y[i] * y[i]]) - sy * sy]

\* the value of the least-squares line of s at hour `at` (the mean of the
\* values when all timestamps are the same)
OlsAt(s, at) ==
    LET q == Sums(s, 0)
    IN  IF q.sxx = 0 THEN Frac(q.sy, q.n)
        ELSE Frac(q.sy * q.sxx + q.sxy * (q.n * at - q.sx), q.n * q.sxx)

\* the raw projection: the line 24 hours past the last observation of s
RawProjection(s) == OlsAt(s, s.timestamps[Len(s.timestamps)] + 24)

\* the coefficient of determination of the least-squares line of s, 0 when
\* all values or all timestamps are the same
RSq(s) ==
    LET q == Sums(s, 0)
    IN  IF q.sxx = 0 \/ q.syy = 0 THEN FInt(0)
        ELSE Frac(q.sxy * q.sxy, q.sxx * q.syy)

MaxObserved(s) ==
    CHOOSE m \in Range(s.no2_values) : \A v \in Range(s.no2_values) : v <= m

MeanObserved(s) == Frac(SumSeq(s.no2_values), Len(s.no2_values))

UsableFiles == {i \in DOMAIN pred.files : pred.files[i].ok /\ pred.files[i].tempo}

\* predict_no2_24h has returned a forecast
Predicted == pred.stage \in {"forecast", "direct"} /\ pred.result # Absent

\* C12: with fewer than 3 usable observations load_tempo_timeseries returns
\* None (and generate_forecast reports insufficient data), and
\* predict_no2_24h returns None for a series of fewer than 3 observations
C12_ShortSeriesAbsent ==
    /\ (pred.stage = "forecast" /\ Cardinality(UsableFiles) < 3) =>
          /\ pred.series = Absent
          /\ pred.result = Absent
          /\ pred.error = "Insufficient data for prediction"
    /\ (pred.stage = "direct" /\ Len(pred.series.timestamps) < 3) =>
          pred.result = Absent

\* three files of which one was skipped: two observations are left
C12_Witness ==
    /\ pred.stage = "forecast"
    /\ Len(pred.files) = 3
    /\ Cardinality(UsableFiles) = 2
    /\ pred.series = Absent

\* C13: when all observations of a series of at least 3 carry the same
\* timestamp, predict_no2_24h returns None
C13_DegenerateAbsent ==
    (/\ pred.stage \in {"forecast", "direct"}
     /\ pred.series # Absent
     /\ Len(pred.series.timestamps) >= 3
     /\ Cardinality(Range(pred.series.timestamps)) = 1)
    => pred.result = Absent

\* C14: whenever the raw projection exceeds 10 times the maximum observed
\* value, predicted_no2 is 1.2 times the maximum observed value
C14_CapAtMax ==
    (Predicted /\ FLess(FInt(10 * MaxObserved(pred.series)),
                        RawProjection(pred.series)))
    => pred.result.predicted_no2 = Frac(12 * MaxObserved(pred.series), 10)

\* a rising series whose projection passes 10 times its maximum
C14_Witness ==
    /\ Predicted
    /\ MaxObserved(pred.series) > 0
    /\ FLess(FInt(10 * MaxObserved(pred.series)), RawProjection(pred.series))
    /\ Cardinality(Range(pred.series.timestamps)) > 1

\* C15: whenever the raw projection is negative, predicted_no2 is the mean
\* of the observed values; and for non-negative observations predicted_no2
\* is not negative
C15_FloorAtMean ==
    /\ (Predicted /\ FLess(RawProjection(pred.series), FInt(0)))
          => pred.result.predicted_no2 = MeanObserved(pred.series)
    /\ (Predicted /\ \A v \in Range(pred.series.no2_values) : v >= 0)
          => ~FLess(pred.result.predicted_no2, FInt(0))

\* C15 where it holds: the same for a series whose maximum is not negative
C15_FloorAtMeanNonNegativeMax ==
    /\ (/\ Predicted
        /\ MaxObserved(pred.series) >= 0
        /\ FLess(RawProjection(pred.series), FInt(0)))
          => pred.result.predicted_no2 = MeanObserved(pred.series)
    /\ (Predicted /\ \A v \in Range(pred.series.no2_values) : v >= 0)
          => ~FLess(pred.result.predicted_no2, FInt(0))

\* a series in chronological order whose values lie on one line that rises
Chronological(s) ==
    \A i, j \in DOMAIN s.timestamps :
        i < j => s.timestamps[i] <= s.timestamps[j]

Rising(s) ==
    LET T == s.timestamps
        y == s.no2_values
        D == DOMAIN T
    IN  /\ Len(T) >= 3
        /\ \E i, j \in D : T[i] < T[j]
        /\ \A i, j \in D : T[i] < T[j] => y[i] < y[j]
        /\ \A i, j \in D : T[i] = T[j] => y[i] = y[j]
        /\ \A i, j, k, l \in D :
              (T[i] < T[j] /\ T[k] < T[l]) =>
                 (y[j] - y[i]) * (T[l] - T[k]) = (y[l] - y[k]) * (T[j] - T[i])

\* the value of that line 24 hours past the last observation
LineAhead(s) ==
    LET T == s.timestamps
        y == s.no2_values
        p == CHOOSE p \in (DOMAIN T) \X (DOMAIN T) : T[p[1]] < T[p[2]]
    IN  FAdd(FInt(y[Len(y)]),
             Frac(24 * (y[p[2]] - y[p[1]]), T[p[2]] - T[p[1]]))

WithinClamp(s, v) ==
    /\ ~FLess(v, FInt(0))
    /\ ~FLess(FInt(10 * MaxObserved(s)), v)

\* C16: for at least 3 observations whose values rise exactly linearly
\* with time, predicted_no2 is the value of the line 24 hours past the last
\* observation whenever that value is within [0, 10 * max observed], and
\* the confidence is high
C16_LinearTrend ==
    (/\ Predicted
     /\ Chronological(pred.series)
     /\ Rising(pred.series)
     /\ WithinClamp(pred.series, LineAhead(pred.series)))
    => /\ pred.result.predicted_no2 = LineAhead(pred.series)
       /\ pred.result.confidence = "high"

\* a forecast from three rising observations of which the last is later
\* than the first
C16_Witness ==
    /\ Predicted
    /\ Len(pred.series.timestamps) = 3
    /\ Chronological(pred.series)
    /\ Rising(pred.series)
    /\ WithinClamp(pred.series, LineAhead(pred.series))
    /\ pred.result.predicted_no2 = LineAhead(pred.series)

\* the series (t0, 1.0e15), (t0+1h, 1.1e15), (t0+2h, 1.2e15), (t0+3h, 1.3e15)
ScenarioSeries == Series(<<0, 1, 2, 3>>, <<10, 11, 12, 13>>)

\* v within one per cent of the whole number w
About(v, w) == Abs(v.num - w * v.den) * 100 <= w * v.den

\* C17 as stated: for the scenario series the forecast for t0+27h is about
\* 1.6e15 with confidence high
C17_Scenario16 ==
    (Predicted /\ pred.series = ScenarioSeries) =>
        /\ About(pred.result.predicted_no2, 16)
        /\ pred.result.prediction_time = 27
        /\ pred.result.confidence = "high"

\* C17 amended: for the scenario series the forecast for t0+27h is about
\* 3.7e15 (the line 1.0e15 + 0.1e15 per hour at hour 27) with confidence
\* high
C17_Scenario37 ==
    (Predicted /\ pred.series = ScenarioSeries) =>
        /\ About(pred.result.predicted_no2, 37)
        /\ pred.result.prediction_time = 27
        /\ pred.result.confidence = "high"

\* generate_forecast has run on the four files of the scenario
C17_Witness ==
    /\ pred.stage = "forecast"
    /\ pred.files = ScenarioFiles
    /\ pred.series = ScenarioSeries
    /\ pred.result # Absent

\* the label of a coefficient of determination
LabelOf(r2) ==
    IF FLess(Frac(7, 10), r2) THEN "high"
    ELSE IF FLess(Frac(4, 10), r2) /\ ~FLess(Frac(7, 10), r2) THEN "medium"
    ELSE "low"

\* C18: the confidence is high exactly when R^2 > 0.7, medium exactly when
\* 0.4 < R^2 <= 0.7 and low otherwise; when all observed values are equal
\* R^2 is taken as 0 and the label is low
C18_ConfidenceFromR2 ==
    Predicted =>
        /\ pred.result.confidence = LabelOf(RSq(pred.series))
        /\ pred.result.r_squared = RoundTo(RSq(pred.series), 1000)
        /\ Cardinality(Range(pred.series.no2_values)) = 1 =>
              /\ pred.result.confidence = "low"
              /\ pred.result.r_squared = 0

\* a forecast whose R^2 lies between 0.4 and 0.7
C18_Witness ==
    /\ Predicted
    /\ pred.result.confidence = "medium"
    /\ FLess(Frac(4, 10), RSq(pred.series))
    /\ ~FLess(Frac(7, 10), RSq(pred.series))

\* what generate_forecast gets from predict_no2_24h for the files
ForecastOf(files) ==
    IF LoadTempoTimeseries(files) = Absent THEN Absent
    ELSE PredictNo2(LoadTempoTimeseries(files))

\* the files with those at positions a and b exchanged
Exchanged(files, a, b) ==
    [i \in 1..Len(files) |->
        IF i = a THEN files[b] ELSE IF i = b THEN files[a] ELSE files[i]]

C19_AqiInRange ==
    (pred.stage = "aqi" \/ Predicted) => pred.result.predicted_aqi \in 0..500

\* a concentration beyond the last breakpoint (2049 ppb) was converted
C19_Witness ==
    /\ pred.stage = "aqi"
    /\ FLess(FInt(2049), Ppb(pred.result.predicted_no2))
    /\ pred.result.predicted_aqi = 500


\* the number of places of a series that hold the observation (h, v)
InSeries(series, h, v) ==
    Cardinality({i \in DOMAIN series.timestamps :
                    series.timestamps[i] = h /\ series.no2_values[i] = v})

\* the number of usable files modified at h whose value is v
InFiles(h, v) ==
    Cardinality({i \in UsableFiles :
                    pred.files[i].mtime = h /\ pred.files[i].value = v})

C22_ShippedSettings ==
    LET used == SettingsOf(lastOp.cache)
    IN  /\ used.max_size = 1000
        /\ lastOp.cache = "tempo" => used.ttl = 1800
        /\ lastOp.cache = "forecast" => used.ttl < tempo_cache.ttl

\* C23: in any interleaving of concurrent calls of a @cached function, the
\* wrapped function is not invoked for a key while the cache holds an
\* unexpired entry for that key
C23_NoInvokeWhileHeld ==
    lastOp.op = "invoke" => ~Contains(caches["tempo"], lastOp.key, now)

\* C24: a value served from the cache was produced by an invocation of the
\* wrapped function that started at most ttl before the value is served
C24_ServedWithinTtlOfStart ==
    (lastOp.op = "cached" /\ ~lastOp.invoked) => now - Born(lastOp.ret) <= Ttl

\* C25: when satellite, ground and weather all return absent, a later call
\* of get_forecast for that location queries the sources again: no call is
\* served the 'Insufficient data for forecast' dictionary from the cache
C25_InsufficientNotServed ==
    (lastOp.op = "cached" /\ lastOp.cache = "forecast" /\ ~lastOp.invoked)
        => lastOp.ret # "insufficient"

\* C26: a call of a @cached function whose key has an unexpired entry
\* returns that entry's value, does not invoke the wrapped function, and
\* leaves every stored value and every expiry time as it was
C26_HitLeavesStore ==
    [][(/\ lastOp'.op = "cached"
        /\ Contains(caches[lastOp'.cache], lastOp'.key, now))
          => /\ ~lastOp'.invoked
             /\ lastOp'.ret = caches[lastOp'.cache].data[lastOp'.key]
             /\ \A c \in CacheNames :
                   /\ caches'[c].data = caches[c].data
                   /\ caches'[c].expires = caches[c].expires]_vars

\* a call served an empty value from the cache, after the timer advanced,
\* while another key is stored as well
C26_Witness ==
    /\ lastOp.op = "cached"
    /\ ~lastOp.invoked
    /\ lastOp.ret = "empty"
    /\ Cardinality(DOMAIN caches["tempo"].data) = 2
    /\ now > 0

\* C27: a value served from the cache was stored by a call with the same
\* rounded lat and lon and the same extra arguments, positional or keyword,
\* as the current call: it is what the wrapped function returns for the
\* current call
C27_ServedForSameArguments ==
    (lastOp.op = "cached" /\ ~lastOp.invoked /\ keyTest.stage = "call")
        => lastOp.ret = ResultOf(keyTest.a)

\* C28: the conversion of a concentration to an AQI is monotone over the
\* non-negative concentrations, those whose ppb falls between two
\* breakpoint rows included: the AQI of a concentration is at most the AQI
\* of the next concentration above it
C28_Monotone ==
    (pred.stage = "aqi" /\ ~FLess(pred.result.predicted_no2, FInt(0)))
        => pred.result.predicted_aqi
             <= CalculateAqi(FAdd(pred.result.predicted_no2, Frac(1, 4))).aqi

\* C29: for every NO2 column density, _calculate_aqi_from_no2 returns the
\* same AQI integer and the same category as AQICalculator.calculate_aqi
\* called with pollutant NO2 and a molecules unit
C29_SameAqiAsService ==
    (/\ pred.stage = "service"
     /\ pred.result.pollutant = "NO2"
     /\ pred.result.unit = "molecules/cm^2")
        => LET aqi_info == CalculateAqi(pred.result.predicted_no2)
           IN  /\ aqi_info.aqi = pred.result.aqi
               /\ aqi_info.category = pred.result.category

\* the service converted a concentration inside a breakpoint row to an AQI
\* that is not the row's lower bound
C29_Witness ==
    /\ pred.stage = "service"
    /\ pred.result.pollutant = "NO2"
    /\ pred.result.unit = "molecules/cm^2"
    /\ pred.result.aqi = 120
    /\ pred.result.category = "Unhealthy for Sensitive Groups"

\* the rating of the band a score belongs to, each band reaching up to the
\* next one
BandRating(s) ==
    IF ~FLess(s, FInt(90)) THEN "Excellent"
    ELSE IF ~FLess(s, FInt(75)) THEN "Good"
    ELSE IF ~FLess(s, FInt(60)) THEN "Moderate"
    ELSE IF ~FLess(s, FInt(45)) THEN "Unhealthy for Sensitive Groups"
    ELSE IF ~FLess(s, FInt(30)) THEN "Unhealthy"
    ELSE IF ~FLess(s, FInt(15)) THEN "Very Unhealthy"
    ELSE "Hazardous"

\* C30: for every breath score in [0, 100], whole or not,
\* calculate_breath_score returns the recommendation of the band the score
\* belongs to; in particular Hazardous is returned only for scores below 15
C30_MaskOfBand ==
    pred.stage = "score" =>
        /\ pred.result.rating = BandRating(pred.result.score)
        /\ pred.result.mask.rating = "Hazardous"
              => FLess(pred.result.score, FInt(15))
====
